---- MODULE Spec2Model ----
(***************************************************************************)
(* Urban Sound Classifier: the App container (wizard, recording, remote    *)
(* classification), the geminiService client and the Visualizer widget.    *)
(*                                                                         *)
(* React state is modelled by one variable per useState/useRef cell.  Each *)
(* event handler, promise continuation and media/reader event is one       *)
(* action.  State updates made after an await are batched (React 18+).     *)
(***************************************************************************)
EXTENDS Integers, Sequences, FiniteSets, TLC

VARIABLES
  currentStep,      \* App: useState<AppStep>
  modelData,        \* App: useState<ModelMetadata | null>
  audioFile,        \* App: useState<Blob | null>
  isRecording,      \* App: useState(false)
  recordingStream,  \* App: useState<MediaStream | undefined>; 0 is undefined
  result,           \* App: useState<ClassificationResult | null>
  error,            \* App: useState<string | null>
  mediaRecorderRef, \* App: useRef<MediaRecorder | null>; 0 is null
  chunksRef,        \* App: useRef<Blob[]>
  pendingReads,     \* FileReader.readAsText calls whose onload has not fired
  pendingGUM,       \* getUserMedia promises not yet settled
  streams,          \* per acquired MediaStream: the state of its tracks
  recorders,        \* per MediaRecorder (one per stream): state and output
  calls,            \* classifyAudioWithGemini invocations not yet settled
  visualizer,       \* the Visualizer instance: its refs, effect and resources
  last              \* history: the operation that produced this state

appVars == <<currentStep, modelData, audioFile, isRecording, recordingStream,
             result, error, mediaRecorderRef, chunksRef, pendingReads,
             pendingGUM, streams, recorders, calls>>

vars == <<appVars, visualizer, last>>

----------------------------------------------------------------------------
(* Bounds of the model *)

MaxStreams == 2      \* microphone streams acquired in one behaviour
MaxPendingGUM == 2   \* getUserMedia requests pending at once
MaxCalls == 2        \* remote calls pending at once
FewStreams == 1      \* streams acquired where recording is not the subject
FewPending == 1      \* getUserMedia requests pending at once, likewise
FewCalls == 1        \* remote calls pending where the wizard is not the subject
MaxInits == 2        \* initVisualizer continuations parked at once
MaxEvents == 2       \* media events fired and not yet delivered

----------------------------------------------------------------------------
(* types.ts *)

UPLOAD_MODEL == 0
INPUT_AUDIO == 1
ANALYZING == 2
RESULTS == 3

Null == [null |-> TRUE]

NoError == "null"
InvalidFileError == "Please upload a valid .ipynb file."
MicDeniedError == "Microphone access denied."
ClassificationFailedError ==
  "Classification failed. Please check your API key or internet connection."

ServiceError == "Failed to classify audio. Please try again."
ReaderError == "ProgressEvent"

----------------------------------------------------------------------------
(* Inputs: the files a user can pick and the replies the remote model can give *)

IpynbSuffix == <<".", "i", "p", "y", "n", "b">>

\* A text is a sequence of runs, each a character repeated n > 0 times
Run(ch, n) == [ch |-> ch, n |-> n]

\* The length of the model context that reaches the prompt
ContextLimit == 2000

ModelFileIds == {1, 2, 3, 4, 5}

\* Files 1 and 2 hold ContextLimit and ContextLimit + 1 characters
ModelFile(i) ==
  CASE i = 1 -> [name |-> <<"m">> \o IpynbSuffix, size |-> 2000,
                 content |-> << Run("a", 1999), Run("b", 1) >>]
    [] i = 2 -> [name |-> IpynbSuffix, size |-> 2001,
                 content |-> << Run("a", 2000), Run("b", 1) >>]
    [] i = 3 -> [name |-> <<"m">> \o IpynbSuffix \o <<".", "t", "x", "t">>,
                 size |-> 3, content |-> << Run("c", 3) >>]
    [] i = 4 -> [name |-> <<"i", "p", "y", "n", "b">>,
                 size |-> 4, content |-> << Run("d", 4) >>]
    [] i = 5 -> [name |-> <<"m", ".", "I", "P", "Y", "N", "B">>,
                 size |-> 5, content |-> << Run("e", 5) >>]

AudioFileIds == {1, 2}

File(i) == [kind |-> "file", id |-> i]

Blob(parts, type) == [kind |-> "blob", type |-> type, parts |-> parts]

LBrace == [t |-> "{"]
RBrace == [t |-> "}"]
NullToken == [t |-> "null"]
Member(k, v) == [t |-> "member", k |-> k, v |-> v]

ResponseTextIds == {1, 2, 3, 4, 5, 6}

\* The text of a reply as a token sequence; <<>> is the empty string.
ResponseText(i) ==
  CASE i = 1 -> << LBrace,
                   Member("label", "Siren"),
                   Member("accuracy", 90),
                   Member("probabilities",
                          << [name |-> "Siren", value |-> 90],
                             [name |-> "Traffic", value |-> 10] >>),
                   Member("explanation", "e1"),
                   RBrace >>
    [] i = 2 -> << LBrace,
                   Member("label", "Dog Bark"),
                   Member("accuracy", 55),
                   RBrace >>
    [] i = 3 -> << LBrace,
                   Member("label", "Siren"),
                   Member("accuracy", 30),
                   Member("probabilities",
                          << [name |-> "Car Horn", value |-> 70],
                             [name |-> "Siren", value |-> 30] >>),
                   Member("explanation", "e3"),
                   Member("label", "Car Horn"),
                   Member("accuracy", 70),
                   RBrace >>
    [] i = 4 -> << NullToken >>
    [] i = 5 -> << LBrace, Member("label", "Siren") >>
    [] i = 6 -> << >>

\* What one invocation of the service meets: the audio cannot be encoded,
\* the request rejects, the response carries no text, or it carries a text.
Outcomes ==
  {[kind |-> "encode"], [kind |-> "network"], [kind |-> "notext"]}
    \cup {[kind |-> "text", id |-> i] : i \in ResponseTextIds}

----------------------------------------------------------------------------
(* Pure functions *)

RemoveAt(seq, i) == SubSeq(seq, 1, i - 1) \o SubSeq(seq, i + 1, Len(seq))

\* A faulty suffix test: String.prototype.includes
Includes(s, suffix) ==
  \E start \in 0..(Len(s) - Len(suffix)) :
    SubSeq(s, start + 1, start + Len(suffix)) = suffix

Min(a, b) == IF a < b THEN a ELSE b
Max(a, b) == IF a > b THEN a ELSE b

RECURSIVE Length(_)
\* String.prototype.length
Length(text) ==
  IF text = << >> THEN 0 ELSE Head(text).n + Length(Tail(text))

RECURSIVE Substring(_, _, _)
\* String.prototype.substring(start, end), 0 <= start <= end: the characters
\* at the 0-based indices start .. end - 1 that the text has
Substring(text, start, end) ==
  IF text = << >> \/ end <= 0
    THEN << >>
    ELSE LET r == Head(text)
             from == Min(Max(start, 0), r.n)
             upto == Min(end, r.n)
             rest == Substring(Tail(text), Max(start - r.n, 0), end - r.n)
         IN  IF upto > from
               THEN << Run(r.ch, upto - from) >> \o rest
               ELSE rest

\* A faulty prompt: the cut is one character late
ModelContextLate(modelContext) == Substring(modelContext, 0, ContextLimit + 1)

\* The excerpt classifyAudioWithGemini embeds in its prompt
ModelContext(modelContext) == Substring(modelContext, 0, ContextLimit)

\* String.prototype.endsWith, on strings as character sequences
EndsWith(s, suffix) ==
  LET start == Len(s) - Len(suffix)
  IN  /\ start >= 0
      /\ SubSeq(s, start + 1, Len(s)) = suffix

\* JSON.parse on a token sequence: `null', or an object whose repeated keys
\* keep the value of their last member; anything else is a SyntaxError.
JSONParse(text) ==
  LET n == Len(text)
      isObject == /\ n >= 2
                  /\ text[1] = LBrace
                  /\ text[n] = RBrace
                  /\ \A i \in 2..(n - 1) : text[i].t = "member"
      keys == {text[i].k : i \in 2..(n - 1)}
      lastOf(k) == CHOOSE i \in 2..(n - 1) :
                     /\ text[i].k = k
                     /\ \A j \in (i + 1)..(n - 1) : text[j].k # k
  IN  IF text = << NullToken >>
        THEN [ok |-> TRUE, value |-> Null]
      ELSE IF isObject
        THEN [ok |-> TRUE, value |-> [k \in keys |-> text[lastOf(k)].v]]
      ELSE [ok |-> FALSE]

\* A faulty client: the catch block rethrows what it caught
classifyAudioWithGeminiRethrows(outcome) ==
  IF outcome.kind = "encode"
    THEN [ok |-> FALSE, error |-> ReaderError, requests |-> 0]
  ELSE IF outcome.kind = "network"
    THEN [ok |-> FALSE, error |-> "fetch failed", requests |-> 1]
  ELSE IF outcome.kind = "notext" \/ ResponseText(outcome.id) = << >>
    THEN [ok |-> FALSE, error |-> "No response from Gemini", requests |-> 1]
  ELSE LET parsed == JSONParse(ResponseText(outcome.id))
       IN  IF parsed.ok
             THEN [ok |-> TRUE, value |-> parsed.value, requests |-> 1]
             ELSE [ok |-> FALSE, error |-> "SyntaxError", requests |-> 1]

\* classifyAudioWithGemini, given what the invocation meets.  blobToBase64 is
\* awaited before the try block, so its rejection passes through unchanged
\* and generateContent is never called; everything thrown inside the try
\* block is replaced by one Error.  requests counts the generateContent
\* calls the invocation has made when it settles.
classifyAudioWithGemini(outcome) ==
  IF outcome.kind = "encode"
    THEN [ok |-> FALSE, error |-> ReaderError, requests |-> 0]
  ELSE IF outcome.kind = "network"
    THEN [ok |-> FALSE, error |-> ServiceError, requests |-> 1]
  ELSE IF outcome.kind = "notext" \/ ResponseText(outcome.id) = << >>
    THEN [ok |-> FALSE, error |-> ServiceError, requests |-> 1]
  ELSE LET parsed == JSONParse(ResponseText(outcome.id))
       IN  IF parsed.ok
             THEN [ok |-> TRUE, value |-> parsed.value, requests |-> 1]
             ELSE [ok |-> FALSE, error |-> ServiceError, requests |-> 1]

----------------------------------------------------------------------------------------------------------------------------------------------------
(* components/Visualizer.tsx                                                *)
(*                                                                          *)
(* A Visualizer value holds the refs of the mounted instance, the closure   *)
(* of its current effect, the initVisualizer continuations parked at        *)
(* `await close()', and the browser resources the component has created:    *)
(* contexts not yet closed, animation frames requested and not cancelled,   *)
(* object URLs not revoked.  AudioContext.close() leaves the context        *)
(* "closing" until the browser reports it "closed".  audioEl is the state   *)
(* of the Audio element of the current effect ("none" when it has none),    *)
(* events the play and pause events fired at it and not yet delivered to    *)
(* its handlers, isPlaying the useState cell of the instance.               *)

NoResources == [contexts |-> 0, frames |-> 0, urls |-> 0]

\* No instance: App renders <Visualizer> only in the audio view
Unmounted(held) ==
  [audioContextRef |-> "null", requestRef |-> "unset", audioUrl |-> FALSE,
   source |-> "none", inits |-> << >>,
   isPlaying |-> FALSE, audioEl |-> "none", events |-> << >>,
   contexts |-> held.contexts, frames |-> held.frames, urls |-> held.urls]

\* The branch initVisualizer takes for the props of a render
SourceOf(stream, file, recording) ==
  IF stream # 0 /\ recording THEN "stream"
  ELSE IF file # Null /\ ~recording THEN "file"
  ELSE "none"

\* draw(): animate() requests the first frame
Draw(v) == [v EXCEPT !.frames = @ + 1, !.requestRef = "scheduled"]

\* initVisualizer from `new AudioContextClass()' to its end
InitBody(v, source) ==
  LET made == [v EXCEPT !.contexts = @ + 1, !.audioContextRef = "running"]
  IN  IF source = "stream"
        THEN Draw([made EXCEPT !.source = "stream", !.isPlaying = TRUE])
      ELSE IF source = "file"
        THEN Draw([made EXCEPT !.urls = @ + 1, !.audioUrl = TRUE,
                               !.source = "file", !.audioEl = "paused",
                               !.events = << >>])
      ELSE [made EXCEPT !.contexts = @ - 1, !.audioContextRef = "closing",
                        !.isPlaying = FALSE]

\* initVisualizer up to `if (!mounted) return': a context that is not
\* closed is closed and awaited, the continuation parked
InitVisualizer(v, source) ==
  IF v.audioContextRef \in {"running", "closing"}
    THEN [v EXCEPT
            !.contexts = IF v.audioContextRef = "running" THEN @ - 1 ELSE @,
            !.audioContextRef = "closing",
            !.inits = Append(@, [mounted |-> TRUE, source |-> source])]
    ELSE InitBody(v, source)

\* A faulty initVisualizer: no `if (!mounted) return' after the await
AfterAwaitUnchecked(v, init) ==
  IF init.source = "none" \/ ~init.mounted
    THEN [InitBody(v, init.source) EXCEPT
            !.frames = v.frames, !.requestRef = v.requestRef]
    ELSE InitBody(v, init.source)

\* initVisualizer after `await close()'
AfterAwait(v, init) ==
  IF ~init.mounted THEN v ELSE InitBody(v, init.source)

\* A faulty cleanup: the requested frame is not cancelled
CleanupKeepsFrame(v) ==
  [v EXCEPT
     !.inits = [i \in DOMAIN @ |-> [@[i] EXCEPT !.mounted = FALSE]],
     !.contexts = IF v.audioContextRef = "running" THEN @ - 1 ELSE @,
     !.audioContextRef = IF @ = "running" THEN "closing" ELSE @,
     !.urls = IF v.audioUrl THEN @ - 1 ELSE @,
     !.audioUrl = FALSE,
     !.audioEl = "none",
     !.events = << >>,
     !.source = "none"]

\* The cleanup function of the effect.  audioEl.pause() fires its pause
\* event later, when the handlers are already null: nothing is delivered.
Cleanup(v) ==
  [v EXCEPT
     !.inits = [i \in DOMAIN @ |-> [@[i] EXCEPT !.mounted = FALSE]],
     !.frames = IF v.requestRef = "scheduled" THEN @ - 1 ELSE @,
     !.requestRef = IF @ = "scheduled" THEN "cancelled" ELSE @,
     !.contexts = IF v.audioContextRef = "running" THEN @ - 1 ELSE @,
     !.audioContextRef = IF @ = "running" THEN "closing" ELSE @,
     !.urls = IF v.audioUrl THEN @ - 1 ELSE @,
     !.audioUrl = FALSE,
     !.audioEl = "none",
     !.events = << >>,
     !.source = "none"]

\* What React does to the Visualizer when App commits a render: unmount,
\* mount, or re-run the effect when one of [stream, audioFile, isRecording]
\* changed.  A file picked or a blob built is a new object even if equal.
Render ==
  LET was == currentStep \in {INPUT_AUDIO, ANALYZING}
      is == currentStep' \in {INPUT_AUDIO, ANALYZING}
      newBlob == last'.op \in {"audioChosen", "recorderStopped"}
      changed == \/ recordingStream' # recordingStream
                 \/ isRecording' # isRecording
                 \/ audioFile' # audioFile
                 \/ newBlob
      source == SourceOf(recordingStream', audioFile', isRecording')
  IN  visualizer' =
        IF was /\ ~is
          THEN [Unmounted(Cleanup(visualizer)) EXCEPT
                  !.inits = Cleanup(visualizer).inits]
        ELSE IF ~was /\ is
          THEN InitVisualizer(visualizer, source)
        ELSE IF was /\ is /\ changed
          THEN InitVisualizer(Cleanup(visualizer), source)
        ELSE visualizer

\* A parked initVisualizer continuation runs
InitResumed(i) ==
  /\ i \in 1..Len(visualizer.inits)
  /\ visualizer' =
       AfterAwait([visualizer EXCEPT !.inits = RemoveAt(@, i)],
                  visualizer.inits[i])
  /\ last' = [op |-> "initResumed", mounted |-> visualizer.inits[i].mounted]
  /\ UNCHANGED appVars

\* The browser finishes closing the context audioContextRef holds
ContextClosed ==
  /\ visualizer.audioContextRef = "closing"
  /\ visualizer' = [visualizer EXCEPT !.audioContextRef = "closed"]
  /\ last' = [op |-> "contextClosed"]
  /\ UNCHANGED appVars

\* animate(): a requested frame fires, requests the next and repaints
Animate ==
  /\ visualizer.frames > 0
  /\ visualizer' = [visualizer EXCEPT !.requestRef = "scheduled"]
  /\ last' = [op |-> "animate"]
  /\ UNCHANGED appVars

\* The play/pause button shown over the canvas
PlayButtonShown ==
  /\ currentStep \in {INPUT_AUDIO, ANALYZING}
  /\ ~isRecording
  /\ audioFile # Null

\* togglePlay.  audioElementRef may still hold the element of an earlier
\* effect, emptied and without handlers: nothing comes of pressing then.
\* pause() on a paused element and play() on a playing one fire no event.
TogglePlay ==
  /\ PlayButtonShown
  /\ Len(visualizer.events) < MaxEvents
  /\ visualizer' =
       IF visualizer.audioEl = "none"
         THEN visualizer
       ELSE IF visualizer.isPlaying
         THEN IF visualizer.audioEl = "playing"
                THEN [visualizer EXCEPT !.audioEl = "paused",
                                        !.events = Append(@, "pause")]
                ELSE visualizer
       ELSE IF visualizer.audioEl = "paused"
         THEN [visualizer EXCEPT !.audioEl = "playing",
                                 !.events = Append(@, "play")]
       ELSE visualizer
  /\ last' = [op |-> "togglePlay", wasPlaying |-> visualizer.isPlaying]
  /\ UNCHANGED appVars

\* audioEl.onplay / audioEl.onpause: the oldest undelivered event
MediaEvent ==
  /\ visualizer.events # << >>
  /\ visualizer' =
       [visualizer EXCEPT !.events = Tail(@),
                          !.isPlaying = (Head(visualizer.events) = "play")]
  /\ last' = [op |-> "mediaEvent"]
  /\ UNCHANGED appVars

\* Playback reaches the end of the file: one task pauses the element and
\* fires pause and ended.  audioEl.onpause, audioEl.onended
PlaybackEnded ==
  /\ visualizer.audioEl = "playing"
  /\ visualizer.events = << >>
  /\ visualizer' = [visualizer EXCEPT !.audioEl = "paused",
                                      !.isPlaying = FALSE]
  /\ last' = [op |-> "playbackEnded"]
  /\ UNCHANGED appVars

----
(* State after construction *)

NoRecorder == [state |-> "none", captured |-> << >>]

Init ==
  /\ currentStep = UPLOAD_MODEL
  /\ modelData = Null
  /\ audioFile = Null
  /\ isRecording = FALSE
  /\ recordingStream = 0
  /\ result = Null
  /\ error = NoError
  /\ mediaRecorderRef = 0
  /\ chunksRef = << >>
  /\ pendingReads = {}
  /\ pendingGUM = 0
  /\ streams = [s \in 1..MaxStreams |-> "none"]
  /\ recorders = [s \in 1..MaxStreams |-> NoRecorder]
  /\ calls = << >>
  /\ visualizer = Unmounted(NoResources)
  /\ last = [op |-> "init"]

\* The views App renders
UploadViewShown == currentStep = UPLOAD_MODEL
AudioViewShown == currentStep \in {INPUT_AUDIO, ANALYZING}
ResultsViewShown == currentStep = RESULTS /\ result # Null

----------------------------------------------------------------------------
(* Step 1: model upload *)

\* handleModelUpload with a file whose name fails the suffix test
HandleModelUploadInvalid(f) ==
  /\ UploadViewShown
  /\ ~EndsWith(ModelFile(f).name, IpynbSuffix)
  /\ error' = InvalidFileError
  /\ last' = [op |-> "modelRejected", file |-> f, model |-> modelData]
  /\ UNCHANGED <<currentStep, modelData, audioFile, isRecording,
                 recordingStream, result, mediaRecorderRef, chunksRef,
                 pendingReads, pendingGUM, streams, recorders, calls>>

\* handleModelUpload with a file that passes: reader.readAsText(file)
HandleModelUploadValid(f) ==
  /\ UploadViewShown
  /\ EndsWith(ModelFile(f).name, IpynbSuffix)
  /\ pendingReads' = pendingReads \cup {f}
  /\ last' = [op |-> "modelReadStarted", file |-> f]
  /\ UNCHANGED <<currentStep, modelData, audioFile, isRecording,
                 recordingStream, result, error, mediaRecorderRef, chunksRef,
                 pendingGUM, streams, recorders, calls>>

\* A faulty reader.onload: name and size are read from the file picked
\* last, not from the file this reader was started for
ReaderOnloadLatestPick(f) ==
  LET latest == CHOOSE g \in pendingReads : \A h \in pendingReads : h <= g
  IN  /\ f \in pendingReads
      /\ pendingReads' = pendingReads \ {f}
      /\ modelData' = [name |-> ModelFile(latest).name,
                       size |-> ModelFile(latest).size,
                       content |-> ModelFile(f).content]
      /\ error' = NoError
      /\ currentStep' = INPUT_AUDIO
      /\ last' = [op |-> "modelLoaded", file |-> f]
      /\ UNCHANGED <<audioFile, isRecording, recordingStream, result,
                     mediaRecorderRef, chunksRef, pendingGUM, streams,
                     recorders, calls>>

\* reader.onload
ReaderOnload(f) ==
  /\ f \in pendingReads
  /\ pendingReads' = pendingReads \ {f}
  /\ modelData' = [name |-> ModelFile(f).name,
                   size |-> ModelFile(f).size,
                   content |-> ModelFile(f).content]
  /\ error' = NoError
  /\ currentStep' = INPUT_AUDIO
  /\ last' = [op |-> "modelLoaded", file |-> f]
  /\ UNCHANGED <<audioFile, isRecording, recordingStream, result,
                 mediaRecorderRef, chunksRef, pendingGUM, streams, recorders,
                 calls>>

\* The Change button of the audio view
ChangeModel ==
  /\ AudioViewShown
  /\ modelData' = Null
  /\ currentStep' = UPLOAD_MODEL
  /\ audioFile' = Null
  /\ last' = [op |-> "change"]
  /\ UNCHANGED <<isRecording, recordingStream, result, error,
                 mediaRecorderRef, chunksRef, pendingReads, pendingGUM,
                 streams, recorders, calls>>

----------------------------------------------------------------------------
(* Step 2: audio handling *)

\* handleAudioUpload
HandleAudioUpload(a) ==
  /\ AudioViewShown
  /\ audioFile' = File(a)
  /\ error' = NoError
  /\ last' = [op |-> "audioChosen", file |-> a]
  /\ UNCHANGED <<currentStep, modelData, isRecording, recordingStream, result,
                 mediaRecorderRef, chunksRef, pendingReads, pendingGUM,
                 streams, recorders, calls>>

\* startRecording up to its await: navigator.mediaDevices.getUserMedia
StartRecording(maxPending) ==
  /\ AudioViewShown
  /\ ~isRecording
  /\ pendingGUM < maxPending
  /\ pendingGUM' = pendingGUM + 1
  /\ last' = [op |-> "recordClicked"]
  /\ UNCHANGED <<currentStep, modelData, audioFile, isRecording,
                 recordingStream, result, error, mediaRecorderRef, chunksRef,
                 pendingReads, streams, recorders, calls>>

\* A faulty startRecording: the previous file is not cleared
AudioKept(previous) == previous

\* The audio input once the stream is acquired: setAudioFile(null)
AudioAfterAcquire(previous) == Null

\* startRecording after its await, the stream granted
StartRecordingGranted(maxStreams) ==
  /\ pendingGUM > 0
  /\ \E s \in 1..maxStreams :
       /\ streams[s] = "none"
       /\ \A t \in 1..(s - 1) : streams[t] # "none"
       /\ pendingGUM' = pendingGUM - 1
       /\ streams' = [streams EXCEPT ![s] = "live"]
       /\ recordingStream' = s
       /\ isRecording' = TRUE
       /\ audioFile' = AudioAfterAcquire(audioFile)
       /\ mediaRecorderRef' = s
       /\ chunksRef' = << >>
       /\ recorders' = [recorders EXCEPT ![s].state = "recording"]
       /\ last' = [op |-> "streamAcquired", stream |-> s,
                   hadFile |-> audioFile # Null]
  /\ UNCHANGED <<currentStep, modelData, result, error, pendingReads, calls>>

\* A faulty catch block: it also drops the selected audio input
StartRecordingDeniedClears ==
  /\ pendingGUM > 0
  /\ pendingGUM' = pendingGUM - 1
  /\ error' = MicDeniedError
  /\ audioFile' = Null
  /\ last' = [op |-> "micDenied"]
  /\ UNCHANGED <<currentStep, modelData, isRecording, recordingStream, result,
                 mediaRecorderRef, chunksRef, pendingReads, streams,
                 recorders, calls>>

\* startRecording after its await, the request rejected
StartRecordingDenied ==
  /\ pendingGUM > 0
  /\ pendingGUM' = pendingGUM - 1
  /\ error' = MicDeniedError
  /\ last' = [op |-> "micDenied"]
  /\ UNCHANGED <<currentStep, modelData, audioFile, isRecording,
                 recordingStream, result, mediaRecorderRef, chunksRef,
                 pendingReads, streams, recorders, calls>>

\* stopRecording: MediaRecorder.stop() leaves a recording recorder inactive
\* with its last data and its stop event still to be delivered.
StopRecording ==
  /\ AudioViewShown
  /\ isRecording
  /\ mediaRecorderRef # 0
  /\ recorders' =
       IF recorders[mediaRecorderRef].state = "recording"
         THEN [recorders EXCEPT ![mediaRecorderRef].state = "stopping"]
         ELSE recorders
  /\ isRecording' = FALSE
  /\ last' = [op |-> "stopClicked", recorder |-> mediaRecorderRef]
  /\ UNCHANGED <<currentStep, modelData, audioFile, recordingStream, result,
                 error, mediaRecorderRef, chunksRef, pendingReads, pendingGUM,
                 streams, calls>>

ChunkSizes == {0, 1}

\* The task MediaRecorder.stop() queues for recorder r, whose handlers
\* close over stream r: it fires dataavailable with the data gathered since
\* start() (no timeslice was given, so this is the only chunk) and then stop.
\*   ondataavailable: if (e.data.size > 0) chunksRef.current.push(e.data)
\*   onstop: new Blob(chunksRef.current), setAudioFile, stop the tracks,
\*           setRecordingStream(undefined)
OnStop(r, size) ==
  LET chunk == [rec |-> r, size |-> size]
      chunks == IF size > 0 THEN Append(chunksRef, chunk) ELSE chunksRef
  IN  /\ recorders[r].state = "stopping"
      /\ chunksRef' = chunks
      /\ audioFile' = Blob(chunks, "audio/webm")
      /\ streams' = [streams EXCEPT ![r] = "ended"]
      /\ recordingStream' = 0
      /\ recorders' =
           [recorders EXCEPT
              ![r].state = "inactive",
              ![r].captured = IF size > 0 THEN Append(@, chunk) ELSE @]
      /\ last' = [op |-> "recorderStopped", recorder |-> r]
      /\ UNCHANGED <<currentStep, modelData, isRecording, result, error,
                     mediaRecorderRef, pendingReads, pendingGUM, calls>>

----------------------------------------------------------------------------
(* Step 3: analysis *)

\* runClassification up to its await
RunClassification(maxCalls) ==
  /\ AudioViewShown
  /\ ~(audioFile = Null \/ isRecording \/ currentStep = ANALYZING)
  /\ modelData # Null
  /\ Len(calls) < maxCalls
  /\ currentStep' = ANALYZING
  /\ calls' = Append(calls, [audio |-> audioFile,
                           context |-> modelData.content,
                           prompt |-> ModelContext(modelData.content)])
  /\ last' = [op |-> "classifyStarted"]
  /\ UNCHANGED <<modelData, audioFile, isRecording, recordingStream, result,
                 error, mediaRecorderRef, chunksRef, pendingReads, pendingGUM,
                 streams, recorders>>

Reverse(seq) == [i \in 1..Len(seq) |-> seq[Len(seq) + 1 - i]]

\* A faulty runClassification: the probabilities are reordered before storing
StoredReordered(data) ==
  IF "probabilities" \in DOMAIN data
    THEN [data EXCEPT !.probabilities = Reverse(@)]
    ELSE data

\* The result runClassification stores: setResult(data)
Stored(data) == data

\* runClassification after its await: the call i settles with the outcome
ClassificationSettled(i, outcome) ==
  LET reply == classifyAudioWithGemini(outcome)
  IN  /\ i \in 1..Len(calls)
      /\ calls' = RemoveAt(calls, i)
      /\ IF reply.ok
           THEN /\ result' = Stored(reply.value)
                /\ currentStep' = RESULTS
                /\ error' = error
                /\ last' = [op |-> "classified", outcome |-> outcome,
                            audio |-> calls[i].audio,
                            requests |-> reply.requests]
           ELSE /\ error' = ClassificationFailedError
                /\ currentStep' = INPUT_AUDIO
                /\ result' = result
                /\ last' = [op |-> "classifyFailed", outcome |-> outcome,
                            thrown |-> reply.error, audio |-> calls[i].audio,
                            requests |-> reply.requests]
      /\ UNCHANGED <<modelData, audioFile, isRecording, recordingStream,
                     mediaRecorderRef, chunksRef, pendingReads, pendingGUM,
                     streams, recorders>>

\* A faulty reset: it goes back to a state without a model
ResetDropsModel ==
  /\ ResultsViewShown
  /\ audioFile' = Null
  /\ result' = Null
  /\ modelData' = Null
  /\ currentStep' = INPUT_AUDIO
  /\ last' = [op |-> "reset"]
  /\ UNCHANGED <<isRecording, recordingStream, error, mediaRecorderRef,
                 chunksRef, pendingReads, pendingGUM, streams, recorders,
                 calls>>

\* reset, the button of the results view
Reset ==
  /\ ResultsViewShown
  /\ audioFile' = Null
  /\ result' = Null
  /\ currentStep' = INPUT_AUDIO
  /\ last' = [op |-> "reset"]
  /\ UNCHANGED <<modelData, isRecording, recordingStream, error,
                 mediaRecorderRef, chunksRef, pendingReads, pendingGUM,
                 streams, recorders, calls>>

----------------------------------------------------------------------------------------------------------------------------------------------------------------------------------------------------------------------------
(* Specifications.  A scope names the inputs offered to the App and the     *)
(* bounds on what is in flight.                                             *)

\* The wizard: every model file and every reply, one recording at a time
WizardScope ==
  [models |-> ModelFileIds, audios |-> AudioFileIds, outcomes |-> Outcomes,
   pending |-> FewPending, streams |-> FewStreams,
   calls |-> MaxCalls]

\* Recording: overlapping recordings, one model file and two replies
RecorderScope ==
  [models |-> {1, 4}, audios |-> {1},
   outcomes |-> {[kind |-> "network"], [kind |-> "text", id |-> 1]},
   pending |-> MaxPendingGUM, streams |-> MaxStreams,
   calls |-> FewCalls]

\* The Visualizer under the App that renders it
VisualizerScope ==
  [models |-> {1, 4}, audios |-> {1},
   outcomes |-> {[kind |-> "network"], [kind |-> "text", id |-> 1]},
   pending |-> FewPending, streams |-> FewStreams,
   calls |-> FewCalls]

\* The App alone: the Visualizer never acts on App state
Unrendered == UNCHANGED visualizer

\* The App with its Visualizer, React running the effect at each commit
Rendered == Render /\ Len(visualizer'.inits) <= MaxInits

Next ==
  \/ \E f \in WizardScope.models : HandleModelUploadInvalid(f) /\ Unrendered
  \/ \E f \in WizardScope.models : HandleModelUploadValid(f) /\ Unrendered
  \/ \E f \in WizardScope.models : ReaderOnload(f) /\ Unrendered
  \/ ChangeModel /\ Unrendered
  \/ \E a \in WizardScope.audios : HandleAudioUpload(a) /\ Unrendered
  \/ StartRecording(WizardScope.pending) /\ Unrendered
  \/ StartRecordingGranted(WizardScope.streams) /\ Unrendered
  \/ StartRecordingDenied /\ Unrendered
  \/ StopRecording /\ Unrendered
  \/ \E r \in 1..MaxStreams, size \in ChunkSizes : OnStop(r, size) /\ Unrendered
  \/ RunClassification(WizardScope.calls) /\ Unrendered
  \/ \E i \in 1..MaxCalls, o \in WizardScope.outcomes :
       ClassificationSettled(i, o) /\ Unrendered
  \/ Reset /\ Unrendered

Spec == Init /\ [][Next]_vars

NextRec ==
  \/ \E f \in RecorderScope.models : HandleModelUploadInvalid(f) /\ Unrendered
  \/ \E f \in RecorderScope.models : HandleModelUploadValid(f) /\ Unrendered
  \/ \E f \in RecorderScope.models : ReaderOnload(f) /\ Unrendered
  \/ ChangeModel /\ Unrendered
  \/ \E a \in RecorderScope.audios : HandleAudioUpload(a) /\ Unrendered
  \/ StartRecording(RecorderScope.pending) /\ Unrendered
  \/ StartRecordingGranted(RecorderScope.streams) /\ Unrendered
  \/ StartRecordingDenied /\ Unrendered
  \/ StopRecording /\ Unrendered
  \/ \E r \in 1..MaxStreams, size \in ChunkSizes : OnStop(r, size) /\ Unrendered
  \/ RunClassification(RecorderScope.calls) /\ Unrendered
  \/ \E i \in 1..MaxCalls, o \in RecorderScope.outcomes :
       ClassificationSettled(i, o) /\ Unrendered
  \/ Reset /\ Unrendered

SpecRec == Init /\ [][NextRec]_vars

NextVis ==
  \/ \E f \in VisualizerScope.models : HandleModelUploadInvalid(f) /\ Rendered
  \/ \E f \in VisualizerScope.models : HandleModelUploadValid(f) /\ Rendered
  \/ \E f \in VisualizerScope.models : ReaderOnload(f) /\ Rendered
  \/ ChangeModel /\ Rendered
  \/ \E a \in VisualizerScope.audios : HandleAudioUpload(a) /\ Rendered
  \/ StartRecording(VisualizerScope.pending) /\ Rendered
  \/ StartRecordingGranted(VisualizerScope.streams) /\ Rendered
  \/ StartRecordingDenied /\ Rendered
  \/ StopRecording /\ Rendered
  \/ \E r \in 1..MaxStreams, size \in ChunkSizes : OnStop(r, size) /\ Rendered
  \/ RunClassification(VisualizerScope.calls) /\ Rendered
  \/ \E i \in 1..MaxCalls, o \in VisualizerScope.outcomes :
       ClassificationSettled(i, o) /\ Rendered
  \/ Reset /\ Rendered
  \/ \E i \in 1..MaxInits : InitResumed(i)
  \/ ContextClosed
  \/ Animate
  \/ TogglePlay
  \/ MediaEvent
  \/ PlaybackEnded

SpecVis == Init /\ [][NextVis]_vars

----------------------------------------------------------------------------
(* Properties *)

ClassifyFailed == last.op = "classifyFailed"
Classified == last.op = "classified"

\* C1: when the remote call fails, the wizard is in INPUT_AUDIO with the
\* classification-failed message, and the audio input given to the call is
\* still the selected audio input, whatever the user did meanwhile.
C1_FailureKeepsAudio ==
  ClassifyFailed =>
    /\ currentStep = INPUT_AUDIO
    /\ error = ClassificationFailedError
    /\ audioFile = last.audio

\* The value of member k of an object text, as written in the text
Written(text, k) ==
  LET at == CHOOSE i \in 2..(Len(text) - 1) :
              /\ text[i].k = k
              /\ \A j \in 2..(Len(text) - 1) : text[j].k = k => j <= i
  IN  text[at].v

IsObjectText(text) == Len(text) >= 2 /\ text[1] = LBrace /\ text[Len(text)] = RBrace

HasMember(text, k) ==
  \E i \in 1..Len(text) : text[i].t = "member" /\ text[i].k = k

RequiredFields == {"label", "accuracy", "probabilities", "explanation"}

\* C2: when the remote call succeeds, the wizard is in RESULTS and the stored
\* result holds, for every field the response text has, the value written in
\* the text (the probabilities in the order written), and no other field.
C2_SuccessStoresParsed ==
  Classified =>
    LET text == ResponseText(last.outcome.id)
    IN  /\ currentStep = RESULTS
        /\ IsObjectText(text) =>
             /\ DOMAIN result = {k \in RequiredFields : HasMember(text, k)}
             /\ \A k \in DOMAIN result : result[k] = Written(text, k)
        /\ ~IsObjectText(text) => result = Null

C2_Witness ==
  /\ Classified
  /\ last.outcome.id = 1
  /\ currentStep = RESULTS
  /\ result.label = "Siren"
  /\ result.accuracy = 90
  /\ result.probabilities = << [name |-> "Siren", value |-> 90],
                               [name |-> "Traffic", value |-> 10] >>
  /\ result.explanation = "e1"

\* C4: a response whose JSON body lacks a required field is never returned
\* as a ClassificationResult: the call fails with the generic outcome.
C4_MissingFieldFails ==
  Classified =>
    \A k \in RequiredFields : HasMember(ResponseText(last.outcome.id), k)

\* C5: whichever way the remote call fails (request rejected, no response
\* text, text that is not JSON), classifyAudioWithGemini throws the same one
\* error and runClassification ends in the same step with the same message;
\* none of these causes is taken for a success.
C5_FailureCauseHidden ==
  /\ ClassifyFailed =>
       /\ currentStep = INPUT_AUDIO
       /\ error = ClassificationFailedError
       /\ last.outcome.kind # "encode" => last.thrown = ServiceError
  /\ Classified =>
       /\ last.outcome.kind = "text"
       /\ Len(ResponseText(last.outcome.id)) > 0
       /\ ResponseText(last.outcome.id)[Len(ResponseText(last.outcome.id))]
            \in {RBrace, NullToken}

C5_Witness ==
  /\ ClassifyFailed
  /\ last.outcome = [kind |-> "text", id |-> 5]
  /\ last.thrown = ServiceError
  /\ currentStep = INPUT_AUDIO
  /\ error = ClassificationFailedError

\* C8: once startRecording has acquired the stream, the audio input is null
\* and isRecording is true, whatever audio input was selected before.
C8_AcquireClearsAudio ==
  last.op = "streamAcquired" =>
    /\ audioFile = Null
    /\ isRecording
    /\ recordingStream = last.stream

C8_Witness ==
  /\ last.op = "streamAcquired"
  /\ last.hadFile
  /\ audioFile = Null
  /\ isRecording

\* C9: the stop of a recording leaves as the selected audio input one
\* audio/webm blob made of exactly the non-empty chunks of that recording,
\* in the order they arrived.
C9_StopYieldsRecording ==
  last.op = "recorderStopped" =>
    audioFile = Blob(recorders[last.recorder].captured, "audio/webm")

\* A name that ends in .ipynb: some prefix followed by the suffix
HasIpynbExtension(name) ==
  \E n \in 0..Len(name) : name = SubSeq(name, 1, n) \o IpynbSuffix

\* C10: a model file whose name does not end in .ipynb is always rejected:
\* the invalid-file-type error is set, the step stays UPLOAD_MODEL and the
\* model metadata is what it was.
C10_InvalidUploadRejected ==
  /\ last.op = "modelReadStarted" => HasIpynbExtension(ModelFile(last.file).name)
  /\ last.op = "modelRejected" =>
       /\ error = InvalidFileError
       /\ currentStep = UPLOAD_MODEL
       /\ modelData = last.model

C10_Witness ==
  /\ last.op = "modelRejected"
  /\ last.file = 3
  /\ ~HasIpynbExtension(ModelFile(last.file).name)
  /\ error = InvalidFileError
  /\ currentStep = UPLOAD_MODEL

\* The props App passes to the Visualizer put it in one of three states
WidgetState ==
  IF ~(currentStep \in {INPUT_AUDIO, ANALYZING}) THEN "Unmounted"
  ELSE IF recordingStream # 0 /\ isRecording THEN "Recording"
  ELSE IF audioFile # Null /\ ~isRecording THEN "Loaded"
  ELSE "Idle"

\* C3: when the Visualizer's graph is torn down (cleanup or unmount) while a
\* microphone stream is attached to it, no track of that stream stays live.
C3_TeardownStopsTracks ==
  [][(visualizer.source = "stream" /\ visualizer'.source # "stream")
       => streams'[recordingStream] # "live"]_vars

\* C6: at most one context is un-closed, at most one frame is requested and
\* at most one object URL is un-revoked; and whenever no graph is attached
\* (between the teardown of one and the construction of the next, when idle
\* or unmounted) there is none of them at all.
C6_TeardownBeforeConstruct ==
  /\ visualizer.contexts <= 1
  /\ visualizer.frames <= 1
  /\ visualizer.urls <= 1
  /\ visualizer.source = "none" =>
       visualizer.contexts = 0 /\ visualizer.frames = 0 /\ visualizer.urls = 0
  /\ visualizer.source = "stream" => visualizer.urls = 0

\* A graph built by a continuation that waited for the previous context
C6_Witness ==
  /\ last.op = "initResumed"
  /\ last.mounted
  /\ visualizer.source = "file"
  /\ visualizer.requestRef = "scheduled"
  /\ visualizer.contexts = 1
  /\ visualizer.frames = 1
  /\ visualizer.urls = 1

\* C7: a frame is requested, and a repaint runs, only while the widget is
\* Recording or Loaded and the graph of that very state is attached.
C7_RepaintOnlyWhileActive ==
  (visualizer.frames > 0 \/ last.op = "animate") =>
    /\ WidgetState \in {"Recording", "Loaded"}
    /\ visualizer.source = SourceOf(recordingStream, audioFile, isRecording)
    /\ visualizer.frames = 1

\* A transition arrived while initVisualizer awaited, after a loop was
\* cancelled: the continuation is still parked and nothing is requested.
C7_Witness ==
  /\ \E i \in 1..Len(visualizer.inits) : ~visualizer.inits[i].mounted
  /\ visualizer.requestRef = "cancelled"
  /\ visualizer.frames = 0
  /\ WidgetState \in {"Idle", "Unmounted"}

\* The metadata of model file f
LoadedFrom(f) ==
  modelData = [name |-> ModelFile(f).name, size |-> ModelFile(f).size,
               content |-> ModelFile(f).content]

\* C11: once the text of an uploaded .ipynb file has been read, the model
\* metadata holds that file's name, size and text, the error is cleared and
\* the step is INPUT_AUDIO; and the metadata, whenever present and however
\* many uploads are pending, is the name, size and text of one single file.
C11_ValidUploadLoaded ==
  /\ last.op = "modelLoaded" =>
       /\ HasIpynbExtension(ModelFile(last.file).name)
       /\ LoadedFrom(last.file)
       /\ error = NoError
       /\ currentStep = INPUT_AUDIO
  /\ modelData # Null => \E f \in ModelFileIds : LoadedFrom(f)

\* The first of two pending uploads is read while the second still waits
C11_Witness ==
  /\ last.op = "modelLoaded"
  /\ last.file = 1
  /\ pendingReads = {2}
  /\ modelData.name = <<"m">> \o IpynbSuffix
  /\ modelData.size = 2000
  /\ currentStep = INPUT_AUDIO
  /\ error = NoError

\* C12: reset, taken in the RESULTS step, sets the audio input and the result
\* to null and the step to INPUT_AUDIO and leaves the model metadata as it is.
C12_ResetKeepsModel ==
  [][last'.op = "reset" =>
       /\ currentStep = RESULTS
       /\ audioFile' = Null
       /\ result' = Null
       /\ currentStep' = INPUT_AUDIO
       /\ modelData' = modelData]_vars

C12_Witness ==
  /\ last.op = "reset"
  /\ modelData # Null
  /\ audioFile = Null
  /\ result = Null
  /\ currentStep = INPUT_AUDIO

\* C13: every invocation of classifyAudioWithGemini has issued exactly one
\* generateContent request when it settles, whether it returns or throws.
C13_OneRequestPerCall ==
  (Classified \/ ClassifyFailed) => last.requests = 1

\* C14: when the microphone request is rejected, the error becomes the
\* microphone-access message and nothing else changes: isRecording, the
\* stored stream and the selected audio input are what they were.
C14_DeniedOnlySetsError ==
  [][last'.op = "micDenied" =>
       /\ error' = MicDeniedError
       /\ isRecording' = isRecording
       /\ recordingStream' = recordingStream
       /\ audioFile' = audioFile
       /\ UNCHANGED <<currentStep, modelData, result, mediaRecorderRef,
                      chunksRef, streams, recorders, calls>>]_vars

C14_Witness ==
  /\ last.op = "micDenied"
  /\ error = MicDeniedError
  /\ audioFile # Null
  /\ ~isRecording
  /\ recordingStream = 0

AllowedSteps ==
  { <<UPLOAD_MODEL, INPUT_AUDIO>>, <<INPUT_AUDIO, ANALYZING>>,
    <<ANALYZING, RESULTS>>, <<ANALYZING, INPUT_AUDIO>>,
    <<RESULTS, INPUT_AUDIO>>, <<INPUT_AUDIO, UPLOAD_MODEL>> }

\* C15: the wizard step changes only along the six edges of the linear
\* wizard; in particular RESULTS is entered only from ANALYZING.
C15_StepsLinear ==
  [][currentStep' # currentStep =>
       <<currentStep, currentStep'>> \in AllowedSteps]_vars

WidgetTransitions ==
  { <<"Idle", "Recording">>, <<"Recording", "Idle">>,
    <<"Idle", "Loaded">>, <<"Loaded", "Idle">> }

\* C16: while the Visualizer is mounted its state changes only by Idle to
\* Recording, Recording to Idle, Idle to Loaded and Loaded to Idle; it never
\* passes directly between Recording and Loaded.
C16_WidgetTransitions ==
  [][(/\ WidgetState' # WidgetState
      /\ WidgetState # "Unmounted"
      /\ WidgetState' # "Unmounted")
       => <<WidgetState, WidgetState'>> \in WidgetTransitions]_vars

RECURSIVE CharAt(_, _)
\* The character at position p >= 1 of a text, "" past its end
CharAt(text, p) ==
  IF text = << >> THEN ""
  ELSE IF p <= Head(text).n THEN Head(text).ch
  ELSE CharAt(Tail(text), p - Head(text).n)

C18_ModelPresentPastUpload ==
  currentStep \in {INPUT_AUDIO, ANALYZING, RESULTS} => modelData # Null

\* C19: at most one remote classification call is in flight.
C19_OneCallInFlight == Len(calls) <= 1

LiveStreams == {s \in 1..MaxStreams : streams[s] = "live"}

\* C20: at most one acquired stream has live tracks, and once a recorder's
\* stop event has been delivered no acquired stream has a live track.
C20_StreamsReleased ==
  /\ Cardinality(LiveStreams) <= 1
  /\ last.op = "recorderStopped" => LiveStreams = {}

\* C21: the classification result is non-null exactly when the wizard step
\* is RESULTS.
C21_ResultIffResultsStep ==
  (result # Null) <=> (currentStep = RESULTS)

\* A recording under way: the recorder mediaRecorderRef holds is recording
RecordingNow ==
  /\ isRecording
  /\ mediaRecorderRef # 0
  /\ recorders[mediaRecorderRef].state = "recording"

\* C22: while a recording is under way the stored stream is the stream of
\* the recorder that is recording, and no stop event of an earlier recorder
\* (which clears the stream and replaces the audio input) is delivered.
C22_StreamOfCurrentRecorder ==
  RecordingNow =>
    /\ recordingStream = mediaRecorderRef
    /\ last.op # "recorderStopped"

\* C24: in the RESULTS step the error message is null.
C24_NoErrorWithResults ==
  currentStep = RESULTS => error = NoError

\* C23: in the Loaded state with the file's graph attached and no media
\* event still to be delivered, isPlaying is true only if the file's audio
\* element is playing; so a newly loaded file has isPlaying false and the
\* first press of the button plays it.
C23_PlayingFlagTracksElement ==
  /\ (/\ WidgetState = "Loaded"
      /\ visualizer.source = "file"
      /\ visualizer.events = << >>
      /\ visualizer.isPlaying)
       => visualizer.audioEl = "playing"
  /\ (/\ last.op = "togglePlay"
      /\ visualizer.source = "file"
      /\ visualizer.audioEl = "paused"
      /\ visualizer.events = << >>)
       => ~last.wasPlaying

====
